---- MODULE Spec2Model ----
(***************************************************************************)
(* A model of the hidden-line plotter STL-Plot: the polyline stitcher      *)
(* join_lines (stl_plot/plot.py), the exact intersection tests of          *)
(* stl_plot/fabricate/geometry.py, value equality of points                *)
(* (stl_plot/util.py Hashable), and the classification and occlusion       *)
(* steps of plot.main.                                                     *)
(***************************************************************************)
EXTENDS Integers, Sequences, FiniteSets, TLC

VARIABLES
    lines,          \* join_lines: the fragments the for loop has taken so far
    line,           \* join_lines: the local `line`
    other_line,     \* join_lines: the local `other_line`
    lines_by_ends,  \* join_lines: the dict end point -> Line
    joins,          \* number of Line.join calls performed so far
    result,         \* join_lines: the returned set of lines
    pc,             \* position in the running function
    call,           \* a call of one of the geometry functions: its arguments
    returned        \* what that call returned; Pending before it has run

stitchVars == <<lines, line, other_line, lines_by_ends, joins, result, pc>>

callVars == <<call, returned>>

vars == <<stitchVars, callVars>>

(***************************************************************************)
(* Bounds.                                                                 *)
(***************************************************************************)
NumPoints == 4
MaxFrags == 3
MaxCoord == 2
MaxZ == 1
MaxSimplexes == 2
MaxAngleSteps == 8
MaxBorders == 2

(***************************************************************************)
(* Program constants.  Angles are in microradians.                         *)
(***************************************************************************)
Pi == 3141593
MinAngle == 196875

-----------------------------------------------------------------------------
(***************************************************************************)
(* Polyline stitching: plot.Line and plot.join_lines.                      *)
(*                                                                         *)
(* A point of a fragment is identified by its Hashable key; Points are the *)
(* distinct key values.  A Line is the sequence of its points.  A Line     *)
(* stored in lines_by_ends carries the identity of the object (the number  *)
(* of the for-loop iteration that stored it), because the function returns *)
(* a set of Line objects and Line defines no __eq__.                       *)
(***************************************************************************)
Points == 1 .. NumPoints

Fragments == { <<a, b>> : a \in Points, b \in Points }

None == <<>>

start(l) == l[1]

end(l) == l[Len(l)]

reverse(l) == [k \in 1 .. Len(l) |-> l[Len(l) + 1 - k]]

\* A join that keeps the shared point twice.
join_keep_shared(line1, line2) == line1 \o line2

\* Line.join without its assertion: line1.points + line2.points[1:]
join(line1, line2) == line1 \o Tail(line2)

\* The precondition Line.join asserts.
join_assert(line1, line2) == end(line1) = start(line2)

EmptyDict == [k \in {} |-> None]

\* dict.pop(key, None): the value removed, and the dict that is left.
pop_value(d, key) == IF key \in DOMAIN d THEN d[key] ELSE None

\* A pop that leaves the entry in the dict.
pop_dict_keep(d, key) == d

pop_dict(d, key) == [k \in (DOMAIN d) \ {key} |-> d[k]]

dict_set(d, key, value) ==
    [k \in (DOMAIN d) \cup {key} |-> IF k = key THEN value ELSE d[k]]

\* A lookup that tries the line as given only.
lookup_as_given(d, l) ==
    IF pop_value(d, end(l)) # None
    THEN [found |-> TRUE, line |-> l,
          other_line |-> pop_value(d, end(l)).points,
          dict |-> pop_dict(d, end(l))]
    ELSE [found |-> FALSE, line |-> l, other_line |-> None, dict |-> d]

\* Lines 66-73: look up a stored line at line.end, then at the end of the
\* reversed line.  found = FALSE is the `break`.
lookup(d, l) ==
    IF pop_value(d, end(l)) # None
    THEN [found |-> TRUE, line |-> l,
          other_line |-> pop_value(d, end(l)).points,
          dict |-> pop_dict(d, end(l))]
    ELSE IF pop_value(d, end(reverse(l))) # None
    THEN [found |-> TRUE, line |-> reverse(l),
          other_line |-> pop_value(d, end(reverse(l))).points,
          dict |-> pop_dict(d, end(reverse(l)))]
    ELSE [found |-> FALSE, line |-> reverse(l),
          other_line |-> None, dict |-> d]

\* The line found taken as it was stored.
orient_as_found(other, l) == other

\* Lines 75-76: turn the line found so that it starts where `line` ends.
orient(other, l) == IF start(other) # end(l) THEN reverse(other) ELSE other

\* The other index entry of the line found left in the dict.
drop_nothing(d, other) == d

\* Line 79: drop the entry under the other end of the line found; it is
\* missing when that line is cyclic.
drop_other_end(d, other) == pop_dict(d, end(other))

\* The line stored under its start only.
index_start_only(d, l, id) == dict_set(d, start(l), [id |-> id, points |-> l])

\* Lines 83-86: store the line under its start and its end.
index(d, l, id) ==
    dict_set(dict_set(d, start(l), [id |-> id, points |-> l]),
             end(l), [id |-> id, points |-> l])

\* Line 88: set(lines_by_ends.values())
values(d) == { d[k] : k \in DOMAIN d }

-----------------------------------------------------------------------------
(***************************************************************************)
(* join_lines as a state machine, one action per step of its loops.        *)
(***************************************************************************)
\* No call of a geometry function is under way.
NoCall == [fn |-> "none"]

Pending == [kind |-> "Pending"]

InitStitch ==
    /\ lines = <<>>
    /\ line = None
    /\ other_line = None
    /\ lines_by_ends = EmptyDict
    /\ joins = 0
    /\ result = {}
    /\ pc = "for"

Init ==
    /\ InitStitch
    /\ call = NoCall
    /\ returned = Pending

\* Line 64: the for loop takes the next fragment of its argument, any
\* 2-point fragment; the argument is the list of the fragments taken.
ForNext ==
    /\ pc = "for"
    /\ Len(lines) < MaxFrags
    /\ \E fragment \in Fragments :
        /\ lines' = Append(lines, fragment)
        /\ line' = fragment
    /\ pc' = "while"
    /\ UNCHANGED <<other_line, lines_by_ends, joins, result, callVars>>

\* Lines 65-73: one lookup of the while loop; it breaks when nothing is found.
Lookup ==
    /\ pc = "while"
    /\ LET r == lookup(lines_by_ends, line) IN
        /\ line' = r.line
        /\ other_line' = r.other_line
        /\ lines_by_ends' = r.dict
        /\ pc' = IF r.found THEN "join" ELSE "index"
    /\ UNCHANGED <<lines, joins, result, callVars>>

\* Lines 75-81: orient the line found, drop its other index entry, join.
Join ==
    /\ pc = "join"
    /\ LET other == orient(other_line, line) IN
        /\ lines_by_ends' = drop_other_end(lines_by_ends, other)
        /\ IF join_assert(line, other)
           THEN /\ line' = join(line, other)
                /\ joins' = joins + 1
                /\ pc' = "while"
           ELSE /\ pc' = "AssertionError"
                /\ UNCHANGED <<line, joins>>
        /\ other_line' = other
    /\ UNCHANGED <<lines, result, callVars>>

\* Lines 83-86: store the finished line under both of its ends.
Index ==
    /\ pc = "index"
    /\ lines_by_ends' = index(lines_by_ends, line, Len(lines))
    /\ pc' = "for"
    /\ UNCHANGED <<lines, line, other_line, joins, result, callVars>>

\* Line 88: the argument is exhausted; return the set of stored lines.
Return ==
    /\ pc = "for"
    /\ result' = values(lines_by_ends)
    /\ pc' = "done"
    /\ UNCHANGED <<lines, line, other_line, lines_by_ends, joins, callVars>>

Next == ForNext \/ Lookup \/ Join \/ Index \/ Return

Spec == Init /\ [][Next]_vars

\* The running function takes its next step: the interpreter executes the
\* statement the function is at.
SpecLive == Spec /\ WF_vars(Next)

-----------------------------------------------------------------------------
(***************************************************************************)
(* join_lines as a function of its argument, built from the same steps:    *)
(* the value the state machine above ends with.  A failed assertion of     *)
(* Line.join ends the run with ok = FALSE.                                 *)
(***************************************************************************)
RECURSIVE while_loop(_, _)
while_loop(d, l) ==
    LET r == lookup(d, l) IN
    IF ~r.found
    THEN [ok |-> TRUE, dict |-> r.dict, line |-> r.line]
    ELSE LET other == orient(r.other_line, r.line) IN
         IF ~join_assert(r.line, other)
         THEN [ok |-> FALSE, dict |-> r.dict, line |-> r.line]
         ELSE while_loop(drop_other_end(r.dict, other), join(r.line, other))

RECURSIVE for_loop(_, _, _)
for_loop(d, seq, k) ==
    IF k > Len(seq)
    THEN [ok |-> TRUE, dict |-> d]
    ELSE LET w == while_loop(d, seq[k]) IN
         IF ~w.ok
         THEN [ok |-> FALSE, dict |-> w.dict]
         ELSE for_loop(index(w.dict, w.line, k), seq, k + 1)

join_lines(seq) ==
    LET f == for_loop(EmptyDict, seq, 1) IN
    [ok |-> f.ok, lines |-> IF f.ok THEN values(f.dict) ELSE {}]

-----------------------------------------------------------------------------
(***************************************************************************)
(* Exact rational arithmetic: fractions.Fraction, the type of every        *)
(* coordinate and parameter.  A fraction is <<numerator, denominator>> in  *)
(* lowest terms with a positive denominator, as Fraction normalises it, so *)
(* that equal fractions are equal values.                                  *)
(***************************************************************************)
Abs(n) == IF n < 0 THEN -n ELSE n

RECURSIVE Gcd(_, _)
Gcd(a, b) == IF b = 0 THEN a ELSE Gcd(b, a % b)

\* Fraction(n, d) for d # 0
Fraction(n, d) ==
    LET g == Gcd(Abs(n), Abs(d))
        sign == IF d < 0 THEN -1 ELSE 1
    IN <<sign * (n \div g), sign * (d \div g)>>

Zero == <<0, 1>>

One == <<1, 1>>

Add(a, b) == Fraction(a[1] * b[2] + b[1] * a[2], a[2] * b[2])

Sub(a, b) == Fraction(a[1] * b[2] - b[1] * a[2], a[2] * b[2])

Mul(a, b) == Fraction(a[1] * b[1], a[2] * b[2])

\* a / b for b # Zero; Python raises ZeroDivisionError for b = Zero, which
\* the callers below model before they divide.
Div(a, b) == Fraction(a[1] * b[2], a[2] * b[1])

Less(a, b) == a[1] * b[2] < b[1] * a[2]

LessEq(a, b) == a[1] * b[2] <= b[1] * a[2]

-----------------------------------------------------------------------------
(***************************************************************************)
(* geometry.py: points, segments, simplexes and the two intersection       *)
(* tests.  A call that raises returns [kind |-> "ZeroDivisionError"].      *)
(***************************************************************************)
NoIntersection == [kind |-> "None"]

ZeroDivisionError == [kind |-> "ZeroDivisionError"]

\* The test `if v != 0` taken for always true.
not_parallel_unchecked(v) == TRUE

\* Line 53: `if v != 0`
not_parallel(v) == v # Zero

\* Line 108: `if n == 0`
has_no_area(n) == n = Zero

\* The test of t1 with the interval closed at 1.
in_segment_closed(t) == LessEq(Zero, t) /\ LessEq(t, One)

\* Line 57: `0 <= t < 1`
in_segment(t) == LessEq(Zero, t) /\ Less(t, One)

\* Line 55 with d1x and d1y exchanged in the last two terms.
t2_numerator_slip(s1x, s1y, s2x, s2y, d1x, d1y) ==
    Add(Sub(Sub(Mul(d1y, s1x), Mul(d1x, s1y)), Mul(d1x, s2x)), Mul(d1y, s2y))

\* Line 55: d1y * s1x - d1x * s1y - d1y * s2x + d1x * s2y
t2_numerator(s1x, s1y, s2x, s2y, d1x, d1y) ==
    Add(Sub(Sub(Mul(d1y, s1x), Mul(d1x, s1y)), Mul(d1y, s2x)), Mul(d1x, s2y))

\* Line 54: d2y * s1x - d2x * s1y - d2y * s2x + d2x * s2y
t1_numerator(s1x, s1y, s2x, s2y, d2x, d2y) ==
    Add(Sub(Sub(Mul(d2y, s1x), Mul(d2x, s1y)), Mul(d2y, s2x)), Mul(d2x, s2y))

\* Intersection.for_segments
for_segments(segment_1, segment_2) ==
    LET s1x == segment_1.start.x
        s1y == segment_1.start.y
        s2x == segment_2.start.x
        s2y == segment_2.start.y
        d1x == Sub(segment_1.end.x, s1x)
        d1y == Sub(segment_1.end.y, s1y)
        d2x == Sub(segment_2.end.x, s2x)
        d2y == Sub(segment_2.end.y, s2y)
        v == Sub(Mul(d1y, d2x), Mul(d1x, d2y))
    IN
    IF not_parallel(v)
    THEN IF v = Zero
         THEN ZeroDivisionError
         ELSE LET t1 == Div(t1_numerator(s1x, s1y, s2x, s2y, d2x, d2y), v)
                  t2 == Div(t2_numerator(s1x, s1y, s2x, s2y, d1x, d1y), v)
              IN
              IF in_segment(t1) /\ in_segment(t2)
              THEN [kind |-> "Intersection",
                    segment_1 |-> segment_1,
                    segment_2 |-> segment_2,
                    point |-> [x |-> Add(s1x, Mul(d1x, t1)),
                               y |-> Add(s1y, Mul(d1y, t1))],
                    t1 |-> t1,
                    t2 |-> t2]
              ELSE NoIntersection
    ELSE NoIntersection

\* iter_intersections: the intersections yielded, in the order of `lines_`.
RECURSIVE iter_intersections(_, _)
iter_intersections(lines_, line_) ==
    IF lines_ = <<>> THEN <<>>
    ELSE LET intersection == for_segments(Head(lines_), line_) IN
         (IF intersection # NoIntersection THEN <<intersection>> ELSE <<>>)
             \o iter_intersections(Tail(lines_), line_)

\* SimplexIntersection.for_simplex_and_point
for_simplex_and_point(simplex, point) ==
    LET x == point.x
        y == point.y
        x1 == simplex.p1.x
        y1 == simplex.p1.y
        d1x == Sub(simplex.p2.x, x1)
        d1y == Sub(simplex.p2.y, y1)
        d2x == Sub(simplex.p3.x, x1)
        d2y == Sub(simplex.p3.y, y1)
        n == Sub(Mul(d1y, d2x), Mul(d1x, d2y))
    IN
    IF has_no_area(n)
    THEN NoIntersection
    ELSE IF n = Zero
         THEN ZeroDivisionError
         ELSE LET t1 == Div(Sub(Add(Sub(Mul(d2y, x1), Mul(d2y, x)), Mul(d2x, y)),
                                Mul(d2x, y1)), n)
                  t2 == Div(Add(Sub(Sub(Mul(d1y, x), Mul(d1y, x1)), Mul(d1x, y)),
                                Mul(d1x, y1)), n)
              IN
              IF LessEq(Zero, t1) /\ LessEq(Zero, t2) /\ LessEq(Add(t1, t2), One)
              THEN [kind |-> "SimplexIntersection",
                    simplex |-> simplex,
                    point |-> point,
                    t1 |-> t1,
                    t2 |-> t2]
              ELSE NoIntersection

-----------------------------------------------------------------------------
(***************************************************************************)
(* The intersection tests applied to every pair of segments, and to every  *)
(* simplex and point, with coordinates on the grid 0 .. MaxCoord.          *)
(***************************************************************************)
Coords == { <<c, 1>> : c \in 0 .. MaxCoord }

GridPoints == [x : Coords, y : Coords]

GridSegments == [start : GridPoints, end : GridPoints]

GridSimplexes == [p1 : GridPoints, p2 : GridPoints, p3 : GridPoints]

SegmentCalls ==
    { [fn |-> "for_segments", segment_1 |-> a, segment_2 |-> b] :
        a \in GridSegments, b \in GridSegments }

SimplexCalls ==
    { [fn |-> "for_simplex_and_point", simplex |-> t, point |-> q] :
        t \in GridSimplexes, q \in GridPoints }

InitGeometry ==
    /\ InitStitch
    /\ call \in SegmentCalls \cup SimplexCalls
    /\ returned = Pending

ForSegments ==
    /\ call.fn = "for_segments"
    /\ returned = Pending
    /\ returned' = for_segments(call.segment_1, call.segment_2)
    /\ UNCHANGED <<call, stitchVars>>

ForSimplexAndPoint ==
    /\ call.fn = "for_simplex_and_point"
    /\ returned = Pending
    /\ returned' = for_simplex_and_point(call.simplex, call.point)
    /\ UNCHANGED <<call, stitchVars>>

NextGeometry == ForSegments \/ ForSimplexAndPoint

SpecGeometry == InitGeometry /\ [][NextGeometry]_vars

-----------------------------------------------------------------------------
(***************************************************************************)
(* Value equality of points: util.Hashable, geometry.Point and the         *)
(* three-coordinate plot.Point derived from it.                            *)
(***************************************************************************)
\* geometry.Point(x, y)
GeometryPoint(x, y) == [cls |-> "geometry.Point", x |-> x, y |-> y]

\* plot.Point(x=, y=, z=)
Point(x, y, z) == [cls |-> "plot.Point", x |-> x, y |-> y, z |-> z]

\* Point._hashable_key, which plot.Point inherits unchanged.
hashable_key(p) == <<p.x, p.y>>

\* Hashable.__eq__
eq(self, other) ==
    self.cls = other.cls /\ hashable_key(self) = hashable_key(other)

\* Hashable.__hash__: the hash of the key.  Equal keys hash equal; a dict
\* tells apart different keys that collide by __eq__, so the key stands
\* for its hash.
hash(p) == hashable_key(p)

\* Whether a dict holding `self` as a key finds `other` to be that key.
same_key(self, other) == hash(self) = hash(other) /\ eq(self, other)

Depths == { <<c, 1>> : c \in 0 .. MaxZ }

PlotPoints == { Point(x, y, z) : x \in Coords, y \in Coords, z \in Coords }

AnyPoints == PlotPoints \cup { GeometryPoint(x, y) : x \in Coords, y \in Coords }

InitPoint ==
    /\ InitStitch
    /\ call \in { [fn |-> "__eq__", self |-> p, other |-> q] :
                    p \in AnyPoints, q \in AnyPoints }
    /\ returned = Pending

Eq ==
    /\ call.fn = "__eq__"
    /\ returned = Pending
    /\ returned' = [kind |-> "bool",
                    eq |-> eq(call.self, call.other),
                    same_key |-> same_key(call.self, call.other)]
    /\ UNCHANGED <<call, stitchVars>>

NextPoint == Eq

SpecPoint == InitPoint /\ [][NextPoint]_vars

-----------------------------------------------------------------------------
(***************************************************************************)
(* The occlusion filter of plot.main: point_on_segment,                    *)
(* has_face_intersections over the simplexes sorted by p1.z, and the test  *)
(* of line 205 that keeps or discards a sub-segment (a, b).                *)
(***************************************************************************)
\* linalg.interpolate(a, b, t), linear interpolation
interpolate(a, b, t) == Add(a, Mul(Sub(b, a), t))

\* point_on_segment
point_on_segment(segment, t) ==
    Point(interpolate(segment.start.x, segment.end.x, t),
          interpolate(segment.start.y, segment.end.y, t),
          interpolate(segment.start.z, segment.end.z, t))

\* Line 179: the depth of the simplex at the intersection.
simplex_z(i) ==
    Add(Add(i.simplex.p1.z, Mul(Sub(i.simplex.p2.z, i.simplex.p1.z), i.t1)),
        Mul(Sub(i.simplex.p3.z, i.simplex.p1.z), i.t2))

\* The test of line 181 with <= for <.
in_front_or_level(i) == LessEq(i.point.z, simplex_z(i))

\* Line 181: `if i.point.z < simplex_z`
in_front(i) == Less(i.point.z, simplex_z(i))

\* has_face_intersections: the loop over iter_simplex_intersections, which
\* skips the simplexes that do not contain the point, with its early return.
RECURSIVE has_face_intersections(_, _)
has_face_intersections(simplexes, point) ==
    IF simplexes = <<>> THEN FALSE
    ELSE LET i == for_simplex_and_point(Head(simplexes), point) IN
         IF i.kind = "SimplexIntersection" /\ in_front(i)
         THEN TRUE
         ELSE has_face_intersections(Tail(simplexes), point)

\* sorted(..., key=lambda x: x.p1.z): a stable sort, by insertion.
RECURSIVE insert_sorted(_, _)
insert_sorted(sorted_, simplex) ==
    IF sorted_ = <<>> THEN <<simplex>>
    ELSE LET last == sorted_[Len(sorted_)] IN
         IF LessEq(last.p1.z, simplex.p1.z)
         THEN Append(sorted_, simplex)
         ELSE Append(insert_sorted(SubSeq(sorted_, 1, Len(sorted_) - 1), simplex), last)

RECURSIVE sorted(_)
sorted(simplexes) ==
    IF simplexes = <<>> THEN <<>>
    ELSE insert_sorted(sorted(SubSeq(simplexes, 1, Len(simplexes) - 1)),
                       simplexes[Len(simplexes)])

\* Lines 204-205: whether the sub-segment (a, b) of the segment is kept.
keeps(simplexes, segment, a, b) ==
    ~has_face_intersections(sorted(simplexes),
                            point_on_segment(segment, Div(Add(a, b), <<2, 1>>)))

\* One projected face, the triangle (0,0) (2,0) (0,2), with every depth at
\* its corners; a segment from (0,0) to (2,1), which leaves the face at
\* t = 2/3, with every depth at its ends.
FaceSimplexes ==
    { [p1 |-> Point(<<0, 1>>, <<0, 1>>, z1),
       p2 |-> Point(<<2, 1>>, <<0, 1>>, z2),
       p3 |-> Point(<<0, 1>>, <<2, 1>>, z3)] : z1 \in Depths, z2 \in Depths, z3 \in Depths }

CrossingSegments ==
    { [start |-> Point(<<0, 1>>, <<0, 1>>, z1),
       end |-> Point(<<2, 1>>, <<1, 1>>, z2)] : z1 \in Depths, z2 \in Depths }

\* Sub-segments (a, b) whose midpoints lie inside the face (t = 1/2), on
\* its border (t = 2/3) and outside of it (t = 3/4).
SubSegments == { <<Zero, One>>, <<<<1, 3>>, One>>, <<<<1, 2>>, One>> }

SimplexLists == UNION { [1 .. k -> FaceSimplexes] : k \in 0 .. MaxSimplexes }

InitOcclusion ==
    /\ InitStitch
    /\ call \in { [fn |-> "has_face_intersections", simplexes |-> l,
                   segment |-> g, a |-> ab[1], b |-> ab[2]] :
                    l \in SimplexLists, g \in CrossingSegments, ab \in SubSegments }
    /\ returned = Pending

HasFaceIntersections ==
    /\ call.fn = "has_face_intersections"
    /\ returned = Pending
    /\ returned' = [kind |-> "bool",
                    kept |-> keeps(call.simplexes, call.segment, call.a, call.b)]
    /\ UNCHANGED <<call, stitchVars>>

NextOcclusion == HasFaceIntersections

SpecOcclusion == InitOcclusion /\ [][NextOcclusion]_vars

-----------------------------------------------------------------------------
(***************************************************************************)
(* Visibility classification: make_segment and the loop of lines 150-157.  *)
(* The dihedral angle and the two normals come from the polyhedra module;  *)
(* the angle is measured through the solid, between 0 and 2 pi.            *)
(***************************************************************************)
DihedralAngles ==
    { Pi + j * MinAngle + d : j \in -MaxAngleSteps .. MaxAngleSteps, d \in -1 .. 1 }

NormalZs == -1 .. 1

\* Lines 119-135, the flags of the segment made.
make_segment(dihedral_angle, left_normal_z, right_normal_z) ==
    LET left_face_visible == left_normal_z > 0
        right_face_visible == right_normal_z > 0
    IN [is_boundary |-> left_face_visible # right_face_visible,
        is_edge |-> left_face_visible /\ right_face_visible
                        /\ Pi - dihedral_angle > MinAngle]

InitClassify ==
    /\ InitStitch
    /\ call \in { [fn |-> "make_segment", dihedral_angle |-> w,
                   left_normal_z |-> l, right_normal_z |-> r] :
                    w \in DihedralAngles, l \in NormalZs, r \in NormalZs }
    /\ returned = Pending

\* Lines 150-157: make the segment of an edge and file it.
MakeSegment ==
    /\ call.fn = "make_segment"
    /\ returned = Pending
    /\ LET segment == make_segment(call.dihedral_angle, call.left_normal_z,
                                   call.right_normal_z)
       IN returned' = [kind |-> "Segment",
                       is_boundary |-> segment.is_boundary,
                       is_edge |-> segment.is_edge,
                       drawn |-> segment.is_edge \/ segment.is_boundary,
                       border |-> segment.is_boundary]
    /\ UNCHANGED <<call, stitchVars>>

NextClassify == MakeSegment

SpecClassify == InitClassify /\ [][NextClassify]_vars

-----------------------------------------------------------------------------
(***************************************************************************)
(* Splitting at the border: the generator iter_border_intersections of     *)
(* plot.main and line 202, which sorts the set of the values it yields.    *)
(* The generator runs one step per action: its first two yields, then one  *)
(* border segment of its for loop at a time, any border segment.  `call`   *)
(* holds the candidate segment and the border segment the loop is at,      *)
(* `returned` the value yielded by that step and the set collected so far. *)
(***************************************************************************)
\* The test of line 171 with the two depths exchanged.
border_not_behind_exchanged(drawn_z, border_z) == LessEq(border_z, drawn_z)

\* Line 171: `if drawn_z <= border_z`
border_not_behind(drawn_z, border_z) == LessEq(drawn_z, border_z)

\* Lines 168-172, the body of the for loop for one intersection: the values
\* it yields.
yield_for(i) ==
    LET border_z == interpolate(i.segment_1.start.z, i.segment_1.end.z, i.t1)
        drawn_z == interpolate(i.segment_2.start.z, i.segment_2.end.z, i.t2)
    IN IF border_not_behind(drawn_z, border_z) THEN {i.t2} ELSE {}

\* Lines 167-172 for one border segment: iter_intersections skips it when
\* for_segments returns None.
yield_for_border(border_segment, segment) ==
    LET i == for_segments(border_segment, segment) IN
    IF i.kind = "Intersection" THEN yield_for(i) ELSE {}

\* sorted(set(...)) of line 202: the fractions of the set in rising order.
RECURSIVE sorted_set(_)
sorted_set(S) ==
    IF S = {} THEN <<>>
    ELSE LET least == CHOOSE a \in S : \A b \in S : LessEq(a, b) IN
         <<least>> \o sorted_set(S \ {least})

\* The border segments: seven placements against the candidate from (0,0)
\* to (2,1), crossing it at t2 = 1/2 (twice, at t1 = 1/4 and t1 = 1/2, and
\* once more turned around), at t2 = 2/3, touching its start, parallel to
\* it and missing it; with every depth at their ends.
BorderPlacements ==
    { <<1, 0, 1, 2>>, <<1, 2, 1, 0>>, <<0, 1, 2, 0>>, <<2, 0, 0, 2>>,
      <<0, 0, 0, 2>>, <<0, 1, 2, 2>>, <<0, 1, 0, 2>> }

BorderSegments ==
    { [start |-> Point(<<p[1], 1>>, <<p[2], 1>>, z1),
       end |-> Point(<<p[3], 1>>, <<p[4], 1>>, z2)] :
        p \in BorderPlacements, z1 \in Depths, z2 \in Depths }

InitSplit ==
    /\ InitStitch
    /\ call \in { [fn |-> "iter_border_intersections", segment |-> g,
                   border_segment |-> None, n |-> 0] : g \in CrossingSegments }
    /\ returned = Pending

\* Lines 164-165: the generator yields 0 and 1.
YieldEnds ==
    /\ call.fn = "iter_border_intersections"
    /\ returned = Pending
    /\ returned' = [kind |-> "yield", yielded |-> {Zero, One},
                    set |-> {Zero, One}]
    /\ UNCHANGED <<call, stitchVars>>

\* Lines 167-172: the for loop takes the next border segment, and set()
\* collects what the generator yields for it.
ForBorder ==
    /\ call.fn = "iter_border_intersections"
    /\ returned.kind = "yield"
    /\ call.n < MaxBorders
    /\ \E border_segment \in BorderSegments :
        /\ call' = [call EXCEPT !.border_segment = border_segment,
                                !.n = call.n + 1]
        /\ returned' = [kind |-> "yield",
                        yielded |-> yield_for_border(border_segment, call.segment),
                        set |-> returned.set
                                  \cup yield_for_border(border_segment, call.segment)]
    /\ UNCHANGED stitchVars

\* Line 202: the border segments are exhausted; positions is the sorted set.
Positions ==
    /\ call.fn = "iter_border_intersections"
    /\ returned.kind = "yield"
    /\ returned' = [kind |-> "positions", set |-> returned.set,
                    positions |-> sorted_set(returned.set)]
    /\ UNCHANGED <<call, stitchVars>>

NextSplit == YieldEnds \/ ForBorder \/ Positions

SpecSplit == InitSplit /\ [][NextSplit]_vars

-----------------------------------------------------------------------------
(***************************************************************************)
(* Vocabulary of the stitching claims.                                     *)
(***************************************************************************)
\* The undirected fragments a polyline is made of, with their multiplicity.
Edges == { {a, b} : a \in Points, b \in Points }

EdgeCount(l, e) == Cardinality({ k \in 1 .. Len(l) - 1 : {l[k], l[k + 1]} = e })

InputCount(seq, e) == Cardinality({ k \in 1 .. Len(seq) : {seq[k][1], seq[k][2]} = e })

RECURSIVE OutputCount(_, _)
OutputCount(S, e) ==
    IF S = {} THEN 0
    ELSE LET r == CHOOSE x \in S : TRUE IN
         EdgeCount(r.points, e) + OutputCount(S \ {r}, e)

RECURSIVE TotalPoints(_)
TotalPoints(S) ==
    IF S = {} THEN 0
    ELSE LET r == CHOOSE x \in S : TRUE IN
         Len(r.points) + TotalPoints(S \ {r})

PointSeqs(S) == { r.points : r \in S }

\* How many fragment ends lie on point p.
Degree(seq, p) ==
    Cardinality({ k \in 1 .. Len(seq) : seq[k][1] = p })
    + Cardinality({ k \in 1 .. Len(seq) : seq[k][2] = p })

Vertices(seq) == { seq[k][1] : k \in 1 .. Len(seq) } \cup { seq[k][2] : k \in 1 .. Len(seq) }

RECURSIVE Reach(_, _, _)
Reach(seq, S, n) ==
    IF n = 0 THEN S
    ELSE Reach(seq,
               S \cup { seq[k][1] : k \in { j \in 1 .. Len(seq) : seq[j][2] \in S } }
                 \cup { seq[k][2] : k \in { j \in 1 .. Len(seq) : seq[j][1] \in S } },
               n - 1)

Connected(seq) ==
    /\ Len(seq) >= 1
    /\ Reach(seq, {seq[1][1]}, Len(seq)) = Vertices(seq)

\* N fragments forming one simple connected path: N + 1 distinct points.
IsSimplePath(seq) ==
    /\ Connected(seq)
    /\ Cardinality(Vertices(seq)) = Len(seq) + 1
    /\ \A p \in Points : Degree(seq, p) <= 2

\* N fragments forming one closed loop: every point has two fragment ends.
IsClosedLoop(seq) ==
    /\ Connected(seq)
    /\ Cardinality(Vertices(seq)) = Len(seq)
    /\ \A p \in Vertices(seq) : Degree(seq, p) = 2

ProcessingOrders(n) == { f \in [1 .. n -> 1 .. n] : \A a, b \in 1 .. n : f[a] = f[b] => a = b }

Permuted(seq, f) == [k \in 1 .. Len(seq) |-> seq[f[k]]]

Finished == pc \in {"done", "AssertionError"}

\* The state machine and the function agree on the value returned.
SameAsFunction ==
    Finished =>
        /\ join_lines(lines).ok = (pc = "done")
        /\ pc = "done" => join_lines(lines).lines = result

\* The fragments a polyline traverses, each with its multiplicity.
EdgeBag(l) ==
    { <<{l[k], l[k + 1]}, EdgeCount(l, {l[k], l[k + 1]})>> : k \in 1 .. Len(l) - 1 }

EdgeBags(S) == { EdgeBag(l) : l \in PointSeqs(S) }

\* Fragments with two different ends each, no two between the same points.
Proper(seq) ==
    /\ \A k \in 1 .. Len(seq) : seq[k][1] # seq[k][2]
    /\ \A j, k \in 1 .. Len(seq) :
           {seq[j][1], seq[j][2]} = {seq[k][1], seq[k][2]} => j = k

\* Proper fragments of which an odd number, three or more, end at one point.
OddJunction(seq) ==
    /\ Proper(seq)
    /\ \E p \in Points : Degree(seq, p) >= 3 /\ Degree(seq, p) % 2 = 1

-----------------------------------------------------------------------------
(***************************************************************************)
(* C1.  For every list of 2-point fragments, join_lines returns, every     *)
(* input fragment lies in exactly one output polyline (the output          *)
(* polylines traverse every fragment as often as the input holds it), and  *)
(* the output's total point count is the fragments' total point count      *)
(* minus one per Line.join performed.                                      *)
(***************************************************************************)
C1_FragmentsConserved ==
    Finished =>
        /\ pc = "done"
        /\ \A e \in Edges : OutputCount(result, e) = InputCount(lines, e)
        /\ TotalPoints(result) = 2 * Len(lines) - joins

\* A finished run over three fragments that meet in one point.
C1_Witness ==
    /\ pc = "done"
    /\ Len(lines) = 3
    /\ Proper(lines)
    /\ \E p \in Points : Degree(lines, p) = 3
    /\ joins >= 1

(***************************************************************************)
(* C2.  N fragments forming one simple connected path are stitched into    *)
(* exactly one polyline of 2N - (N-1) points, and fragments forming one    *)
(* closed loop into exactly one polyline whose start equals its end, in    *)
(* every processing order and orientation of the fragments.                *)
(***************************************************************************)
C2_OnePolyline ==
    /\ (Finished /\ IsSimplePath(lines)) =>
            /\ pc = "done"
            /\ Cardinality(result) = 1
            /\ \A r \in result : Len(r.points) = 2 * Len(lines) - (Len(lines) - 1)
    /\ (Finished /\ IsClosedLoop(lines)) =>
            /\ pc = "done"
            /\ Cardinality(result) = 1
            /\ \A r \in result : start(r.points) = end(r.points)

\* A path of three fragments whose middle fragment is processed last, so
\* that one pass of the while loop joins twice.
C2_Witness ==
    /\ pc = "done"
    /\ Len(lines) = 3
    /\ IsSimplePath(lines)
    /\ Vertices(<<lines[1]>>) \cap Vertices(<<lines[2]>>) = {}
    /\ joins = 2

(***************************************************************************)
(* C3, as claimed.  The set of polylines returned is the same for every    *)
(* permutation of the fragment list, a polyline taken for the fragments it *)
(* traverses (so that neither its direction nor, for a closed one, its     *)
(* first point matters).  Stated for lists of proper fragments.            *)
(***************************************************************************)
C3_AnyOrderSameOutput ==
    (pc = "done" /\ Proper(lines)) =>
        LET bags == EdgeBags(result) IN
        \A f \in ProcessingOrders(Len(lines)) :
            LET other == join_lines(Permuted(lines, f)) IN
            other.ok /\ EdgeBags(other.lines) = bags

(***************************************************************************)
(* C3, amended.  When no point is the end of more than two fragments, the  *)
(* polylines returned for every permutation of the fragment list traverse  *)
(* the same groups of fragments.                                           *)
(***************************************************************************)
C3_AnyOrderSameOutputNoJunction ==
    (pc = "done" /\ \A p \in Points : Degree(lines, p) <= 2) =>
        LET bags == EdgeBags(result) IN
        \A f \in ProcessingOrders(Len(lines)) :
            LET other == join_lines(Permuted(lines, f)) IN
            other.ok /\ EdgeBags(other.lines) = bags

\* Three fragments around a triangle, stitched into one closed polyline.
C3_Witness ==
    /\ pc = "done"
    /\ Len(lines) = 3
    /\ Proper(lines)
    /\ IsClosedLoop(lines)
    /\ \A p \in Points : Degree(lines, p) <= 2
    /\ Cardinality(result) = 1

(***************************************************************************)
(* C4, as claimed.  When some point is the end of an odd number of         *)
(* fragments, such as three fragments ending at the same point, stitching  *)
(* fails with an internal-invariant violation instead of returning.        *)
(***************************************************************************)
C4_OddJunctionFails ==
    (Finished /\ OddJunction(lines)) => pc = "AssertionError"

(***************************************************************************)
(* C4, amended.  Stitching never fails: the assertion of Line.join holds   *)
(* at every join, and a list with three fragments ending at one point is   *)
(* stitched into polylines like any other.                                 *)
(***************************************************************************)
C4_NeverFails ==
    /\ pc # "AssertionError"
    /\ pc = "join" => join_assert(line, orient(other_line, line))
    /\ (pc = "done" /\ OddJunction(lines)) => result # {}

\* A finished run over three fragments ending at one point: two of them
\* are joined there, the third is returned on its own.
C4_Witness ==
    /\ pc = "done"
    /\ OddJunction(lines)
    /\ joins = 1
    /\ Cardinality(result) = 2

-----------------------------------------------------------------------------
(***************************************************************************)
(* Vocabulary of the geometry claims.                                      *)
(***************************************************************************)
\* P(t) = start + t * (end - start)
PointAt(segment, t) ==
    [x |-> Add(segment.start.x, Mul(t, Sub(segment.end.x, segment.start.x))),
     y |-> Add(segment.start.y, Mul(t, Sub(segment.end.y, segment.start.y)))]

\* The cross product (b - a) x (d - c) of two directions.
Cross(a, b, c, d) ==
    Sub(Mul(Sub(b.x, a.x), Sub(d.y, c.y)), Mul(Sub(b.y, a.y), Sub(d.x, c.x)))

Parallel(segment_1, segment_2) ==
    Cross(segment_1.start, segment_1.end, segment_2.start, segment_2.end) = Zero

ZeroArea(simplex) == Cross(simplex.p1, simplex.p2, simplex.p1, simplex.p3) = Zero

Reversed(segment) == [start |-> segment.end, end |-> segment.start]

\* How many of the intersections yielded lie at point q.
YieldedAt(yielded, q) ==
    Cardinality({ k \in 1 .. Len(yielded) : yielded[k].point = q })

(***************************************************************************)
(* C5.  Whenever Intersection.for_segments returns an intersection, its    *)
(* parameters t1 and t2 lie in [0,1), and each segment evaluated at its    *)
(* own parameter gives exactly the reported point.                         *)
(***************************************************************************)
C5_PointOnBothSegments ==
    (call.fn = "for_segments" /\ returned.kind = "Intersection") =>
        /\ LessEq(Zero, returned.t1) /\ Less(returned.t1, One)
        /\ LessEq(Zero, returned.t2) /\ Less(returned.t2, One)
        /\ PointAt(call.segment_1, returned.t1) = returned.point
        /\ PointAt(call.segment_2, returned.t2) = returned.point

\* An intersection strictly inside both segments, at different parameters.
C5_Witness ==
    /\ call.fn = "for_segments"
    /\ returned.kind = "Intersection"
    /\ Less(Zero, returned.t1)
    /\ Less(Zero, returned.t2)
    /\ returned.t1 # returned.t2

(***************************************************************************)
(* C6.  For two consecutive boundary edges A and B, A ending where B       *)
(* starts, at the vertex q, and any candidate segment, at most one of the  *)
(* intersections of A and of B with the candidate lies at q:               *)
(* iter_intersections yields q at most once.                               *)
(***************************************************************************)
C6_SharedVertexAtMostOnce ==
    (call.fn = "for_segments" /\ returned # Pending) =>
        \A r \in GridPoints :
            LET A == call.segment_1
                q == A.end
                B == [start |-> q, end |-> r]
            IN YieldedAt(iter_intersections(<<A, B>>, call.segment_2), q) <= 1

\* The candidate passes through q, crossing A: B reports q, A does not,
\* although A turned around, starting at q, would.
C6_Witness ==
    /\ call.fn = "for_segments"
    /\ returned = NoIntersection
    /\ for_segments(Reversed(call.segment_1), call.segment_2).kind = "Intersection"
    /\ for_segments(Reversed(call.segment_1), call.segment_2).point = call.segment_1.end
    /\ \E r \in GridPoints :
        LET B == [start |-> call.segment_1.end, end |-> r] IN
        /\ for_segments(B, call.segment_2).kind = "Intersection"
        /\ for_segments(B, call.segment_2).point = call.segment_1.end

(***************************************************************************)
(* C7.  Degenerate input is no error: for_segments returns None for every  *)
(* pair of parallel or collinear segments, for_simplex_and_point returns   *)
(* None for every simplex without area and every point, and neither ever   *)
(* divides by zero.                                                        *)
(***************************************************************************)
C7_DegenerateIsNone ==
    /\ returned.kind # "ZeroDivisionError"
    /\ (call.fn = "for_segments" /\ returned # Pending
            /\ Parallel(call.segment_1, call.segment_2))
        => returned = NoIntersection
    /\ (call.fn = "for_simplex_and_point" /\ returned # Pending
            /\ ZeroArea(call.simplex))
        => returned = NoIntersection

\* A segment of positive length tested against itself.
C7_Witness ==
    /\ call.fn = "for_segments"
    /\ call.segment_1 = call.segment_2
    /\ call.segment_1.start # call.segment_1.end
    /\ returned = NoIntersection

-----------------------------------------------------------------------------
(***************************************************************************)
(* C8.  Two points of the plot pipeline are equal, and are the same dict   *)
(* key, if and only if all of their coordinates x, y and z are equal.      *)
(***************************************************************************)
C8_EqualIffAllCoordinatesEqual ==
    (call.fn = "__eq__" /\ returned # Pending
        /\ call.self.cls = "plot.Point" /\ call.other.cls = "plot.Point") =>
        LET all_equal == /\ call.self.x = call.other.x
                         /\ call.self.y = call.other.y
                         /\ call.self.z = call.other.z
        IN /\ returned.eq <=> all_equal
           /\ returned.same_key <=> all_equal

-----------------------------------------------------------------------------
(***************************************************************************)
(* Vocabulary of the occlusion claim.                                      *)
(***************************************************************************)
\* The point of the segment in the middle of the sub-segment (a, b): its
\* position and its depth, interpolated along the segment.
Midpoint(segment, a, b) ==
    LET t == Mul(Add(a, b), <<1, 2>>) IN
    Point(PointAt(segment, t).x,
          PointAt(segment, t).y,
          Add(Mul(Sub(One, t), segment.start.z), Mul(t, segment.end.z)))

\* z1 + (z2 - z1) * t1 + (z3 - z1) * t2
DepthAt(simplex, t1, t2) ==
    Add(simplex.p1.z, Add(Mul(Sub(simplex.p2.z, simplex.p1.z), t1),
                          Mul(Sub(simplex.p3.z, simplex.p1.z), t2)))

\* The simplex contains the point, its border included, at the same depth.
Level(simplex, point) ==
    LET i == for_simplex_and_point(simplex, point) IN
    /\ i.kind = "SimplexIntersection"
    /\ DepthAt(simplex, i.t1, i.t2) = point.z

\* The simplex contains the point, its border included, and is strictly
\* deeper there.
Occludes(simplex, point) ==
    LET i == for_simplex_and_point(simplex, point) IN
    /\ i.kind = "SimplexIntersection"
    /\ Less(point.z, DepthAt(simplex, i.t1, i.t2))

(***************************************************************************)
(* C9.  A sub-segment (a, b) is discarded if and only if some simplex      *)
(* contains the position of its midpoint and is strictly deeper there than *)
(* the sub-segment, so that a simplex of equal depth does not occlude it;  *)
(* and the order of the simplexes does not change the outcome: it is the   *)
(* same when the simplexes are visited as listed instead of sorted by      *)
(* p1.z, for every list, that is for every order of the same simplexes.    *)
(***************************************************************************)
C9_DiscardedIffOccluded ==
    (call.fn = "has_face_intersections" /\ returned # Pending) =>
        LET mid == Midpoint(call.segment, call.a, call.b) IN
        /\ (~returned.kept) <=>
                \E k \in 1 .. Len(call.simplexes) : Occludes(call.simplexes[k], mid)
        /\ has_face_intersections(call.simplexes, mid) = ~returned.kept

\* Two simplexes contain the midpoint; the sort puts first the one level
\* with the sub-segment, which does not occlude it; the other one does.
C9_Witness ==
    /\ call.fn = "has_face_intersections"
    /\ returned # Pending
    /\ ~returned.kept
    /\ Len(call.simplexes) = 2
    /\ sorted(call.simplexes) # call.simplexes
    /\ Level(sorted(call.simplexes)[1], Midpoint(call.segment, call.a, call.b))

(***************************************************************************)
(* C10.  An edge is a crease (is_edge) if and only if both adjacent faces  *)
(* are front-visible and the dihedral angle deviates from pi by more than  *)
(* the threshold, in either direction; an edge whose two front-visible     *)
(* faces meet at exactly pi is neither boundary nor crease and is not      *)
(* drawn.                                                                  *)
(***************************************************************************)
C10_CreaseIffAngleDeviates ==
    (call.fn = "make_segment" /\ returned # Pending) =>
        LET both_visible == call.left_normal_z > 0 /\ call.right_normal_z > 0 IN
        /\ returned.is_edge <=>
                (both_visible /\ Abs(call.dihedral_angle - Pi) > MinAngle)
        /\ (both_visible /\ call.dihedral_angle = Pi) =>
                (~returned.is_boundary /\ ~returned.is_edge /\ ~returned.drawn)

-----------------------------------------------------------------------------
(***************************************************************************)
(* Vocabulary of the splitting claim.                                      *)
(***************************************************************************)
\* The depth of the segment at its parameter t: (1 - t) * z0 + t * z1
DepthAlong(segment, t) ==
    Add(Mul(Sub(One, t), segment.start.z), Mul(t, segment.end.z))

\* The generator has taken a border segment: the step of its for loop.
AtBorder ==
    /\ call.fn = "iter_border_intersections"
    /\ returned.kind = "yield"
    /\ call.n > 0

\* The intersection of the border segment the loop is at with the candidate.
Crossing == for_segments(call.border_segment, call.segment)

(***************************************************************************)
(* C11, as claimed.  For a border segment that intersects the candidate,   *)
(* the crossing parameter on the candidate is added to the split           *)
(* parameters only if the border's depth at the crossing, interpolated     *)
(* with its own parameter, is less than or equal to the candidate's depth  *)
(* at the crossing; 0 and 1 are always included.  Stated for the          *)
(* crossings inside the candidate, whose parameter is not 0.               *)
(***************************************************************************)
C11_SplitOnlyIfBorderDepthAtMost ==
    AtBorder =>
        /\ {Zero, One} \subseteq returned.set
        /\ returned.yielded \ {Zero} # {} =>
            /\ Crossing.kind = "Intersection"
            /\ returned.yielded = {Crossing.t2}
            /\ LessEq(DepthAlong(call.border_segment, Crossing.t1),
                      DepthAlong(call.segment, Crossing.t2))

(***************************************************************************)
(* C11, amended.  For a border segment that intersects the candidate, the  *)
(* crossing parameter on the candidate is added to the split parameters    *)
(* only if the candidate's depth at the crossing is less than or equal to  *)
(* the border's depth at the crossing, each interpolated along its own     *)
(* segment with its own parameter: the border is level with the candidate  *)
(* or nearer to the viewer, a larger depth being nearer.  Nothing else is  *)
(* added, and 0 and 1 are always included, also in the sorted positions.   *)
(***************************************************************************)
C11_SplitOnlyIfBorderNotBehind ==
    /\ [](AtBorder =>
            /\ {Zero, One} \subseteq returned.set
            /\ returned.yielded \subseteq returned.set
            /\ returned.yielded # {} =>
                /\ Crossing.kind = "Intersection"
                /\ returned.yielded = {Crossing.t2}
                /\ LessEq(DepthAlong(call.segment, Crossing.t2),
                          DepthAlong(call.border_segment, Crossing.t1)))
    /\ []((call.fn = "iter_border_intersections" /\ returned.kind = "positions") =>
            /\ { returned.positions[k] : k \in 1 .. Len(returned.positions) }
                    = returned.set
            /\ returned.positions[1] = Zero
            /\ \A k \in 1 .. Len(returned.positions) - 1 :
                    Less(returned.positions[k], returned.positions[k + 1]))
    /\ [][(AtBorder /\ AtBorder') =>
                returned'.set = returned.set \cup returned'.yielded]_vars

\* The second border segment crosses the candidate inside of it and is
\* strictly nearer to the viewer there; its parameter is the fourth one.
C11_Witness ==
    /\ AtBorder
    /\ call.n = 2
    /\ Crossing.kind = "Intersection"
    /\ returned.yielded = {Crossing.t2}
    /\ Less(DepthAlong(call.segment, Crossing.t2),
            DepthAlong(call.border_segment, Crossing.t1))
    /\ Cardinality(returned.set) = 4

-----------------------------------------------------------------------------
(***************************************************************************)
(* Vocabulary of the claims about the index lines_by_ends.                 *)
(***************************************************************************)
\* The two ends of a stored line.
Ends(r) == {start(r.points), end(r.points)}

\* The stored line is the entry under each of its ends.
IndexedUnderBothEnds(d, r) ==
    \A p \in Ends(r) : p \in DOMAIN d /\ d[p] = r

(***************************************************************************)
(* C12.  The polylines join_lines returns are maximal: no two distinct     *)
(* polylines returned share a start or end point, so that no two of them   *)
(* can be joined in either orientation; and whenever the for loop is       *)
(* between two fragments, every polyline in lines_by_ends is the entry     *)
(* under its start and under its end, the line about to be indexed taking  *)
(* the place of no entry of another polyline.                              *)
(***************************************************************************)
C12_Maximal ==
    /\ pc = "done" =>
            \A r1, r2 \in result : r1 # r2 => Ends(r1) \cap Ends(r2) = {}
    /\ pc \in {"for", "done"} =>
            \A r \in values(lines_by_ends) : IndexedUnderBothEnds(lines_by_ends, r)
    /\ pc = "index" =>
            /\ start(line) \notin DOMAIN lines_by_ends
            /\ end(line) \notin DOMAIN lines_by_ends

\* Three fragments returned as two polylines, an end of the one being the
\* middle point of the other: they touch, yet not end to end.
C12_Witness ==
    /\ pc = "done"
    /\ Len(lines) = 3
    /\ Proper(lines)
    /\ \E r1, r2 \in result :
        /\ r1 # r2
        /\ Len(r1.points) = 3
        /\ r1.points[2] \in Ends(r2)

(***************************************************************************)
(* Vocabulary of the termination claim.                                    *)
(***************************************************************************)
\* The polylines the function holds: those stored in lines_by_ends and the
\* line the while loop is working on.  A line found by the lookup and not
\* yet joined is still counted as stored.
OpenPolylines ==
    Cardinality(values(lines_by_ends))
        + (IF pc \in {"while", "index"} THEN 1 ELSE 0)
        + (IF pc = "join" /\ other_line \notin PointSeqs(values(lines_by_ends))
           THEN 2 ELSE IF pc = "join" THEN 1 ELSE 0)

(***************************************************************************)
(* C13.  join_lines terminates on every finite list of fragments: every    *)
(* pass of the while loop that does not break takes a polyline out of      *)
(* lines_by_ends and performs one join, so that the number of open         *)
(* polylines is the number of fragments taken less the number of joins,    *)
(* one fewer with every join; the while loop reaches its break and the     *)
(* function returns, also with closed loops, duplicated fragments and      *)
(* fragments whose start equals their end.                                 *)
(***************************************************************************)
C13_Terminates ==
    /\ [](pc # "AssertionError" => OpenPolylines = Len(lines) - joins)
    /\ [][pc = "join" =>
            /\ joins' = joins + 1
            /\ OpenPolylines' = OpenPolylines - 1
            /\ Cardinality(values(lines_by_ends')) < OpenPolylines - 1]_vars
    /\ <>(pc = "done")

\* A run that has returned after two joins, over a fragment whose start
\* equals its end, the same fragment once more, and a third one ending
\* there: a closed polyline was taken out of the dict and joined twice.
C13_Witness ==
    /\ pc = "done"
    /\ joins = 2
    /\ Len(lines) = 3
    /\ lines[1][1] = lines[1][2]
    /\ lines[2] = lines[1]
    /\ lines[3][1] # lines[3][2]
    /\ Cardinality(result) = 1

====
